---- MODULE Spec2Model ----
(***************************************************************************)
(* Model of src/main.py: the two evaluators linear_algorithm and           *)
(* branching_algorithm, and the two Calculate handlers of CalculatorApp.   *)
(*                                                                         *)
(* Numbers.  linear_algorithm's formula is evaluated in decimal fixed      *)
(* point with Scale units per 1 (sympy works at >= 15 digits; the model    *)
(* keeps 4 decimals).  sin(n)^2 for an integer n comes from a table of the *)
(* function's values; cos(atan(r))^2 is computed as 1/(1 + r^2).           *)
(* branching_algorithm's value is transcendental in a real argument and is *)
(* kept symbolic, as sympy keeps it until evalf: the model computes which  *)
(* expression the Piecewise selects and which class of sympy number        *)
(* (Float, zoo, nan) the substitution produces.                            *)
(*                                                                         *)
(* Text.  Entry contents and the linear tab's display are sequences of     *)
(* one-character strings; int(), float() and the ".5f" format are          *)
(* computed on them (whitespace, "_", exponents, "inf" and "nan", which    *)
(* int() and float() also accept, are not among the texts typed).          *)
(*                                                                         *)
(* Library behaviour the model relies on.  Python: int / int raises        *)
(* ZeroDivisionError for a zero divisor; int() and float() raise           *)
(* ValueError; ZeroDivisionError and TypeError are not ValueErrors.        *)
(* sympy: a / 0 is zoo and raises nothing; zoo * k = zoo for k # 0;        *)
(* zoo + number = zoo; 0**0 = 1; cot(0.0) = zoo; sinh(zoo) = cos(zoo) =    *)
(* nan; evalf(n) gives dps_to_prec(n) bits, at least 1, and returns zoo    *)
(* and nan unchanged; format(zoo or nan, ".5f") raises TypeError.          *)
(* Tk: an exception that leaves a command callback is reported and the     *)
(* main loop goes on.                                                      *)
(***************************************************************************)
EXTENDS Integers, Sequences, FiniteSets, TLC

VARIABLES
    entry_x, entry_y, entry_z, entry_accuracy,  \* linear tab: Entry texts
    result_display,                             \* linear tab: result Label
    entry_x2, entry_y2, func_combobox,          \* branching tab: inputs
    result_display2,                            \* branching tab: result Label
    callback,      \* the most recent Calculate callback: did it reach the
                   \* evaluator, and which exception left the handler
    lin_args, lin_out,   \* a direct call of linear_algorithm and its outcome
    br_args, br_out      \* a direct call of branching_algorithm and its outcome

input_vars == <<entry_x, entry_y, entry_z, entry_accuracy,
               entry_x2, entry_y2, func_combobox>>
gui_vars == <<entry_x, entry_y, entry_z, entry_accuracy, result_display,
              entry_x2, entry_y2, func_combobox, result_display2, callback>>
call_vars == <<lin_args, lin_out, br_args, br_out>>
vars == <<gui_vars, call_vars>>

----------------------------------------------------------------------------
(* Bounds of the model *)

MaxAbs == 3           \* x, y, z of a direct call range over -MaxAbs..MaxAbs
MaxAccuracy == 5      \* accuracy ranges over -MaxNegAccuracy..MaxAccuracy
MaxNegAccuracy == 2
MaxQuarters == 16     \* x, y of branching_algorithm: k/4, |k| <= MaxQuarters

Scale == 10 * 10 * 10 * 10     \* fixed-point units per 1

----------------------------------------------------------------------------
(* Arithmetic helpers *)

Abs(a) == IF a < 0 THEN -a ELSE a

Max(a, b) == IF a >= b THEN a ELSE b

\* a / b rounded to the nearest integer, ties to even (b > 0)
RoundDiv(a, b) ==
    LET q == a \div b
        r == a % b
    IN  IF 2 * r > b \/ (2 * r = b /\ q % 2 = 1) THEN q + 1 ELSE q

RECURSIVE IntPow(_, _)
IntPow(b, e) == IF e = 0 THEN 1 ELSE b * IntPow(b, e - 1)

\* number of decimal digits of a natural number (0 has none)
RECURSIVE NumDigits(_)
NumDigits(n) == IF n = 0 THEN 0 ELSE 1 + NumDigits(n \div 10)

----------------------------------------------------------------------------
(* Outcomes of a call: it returns a sympy number or raises *)

Raise(exc) == [kind |-> "raise", exc |-> exc]
Return(val) == [kind |-> "return", val |-> val]
NotCalled == [kind |-> "none"]

Float(v) == [cls |-> "Float", v |-> v]
Zoo == [cls |-> "zoo"]
NaN == [cls |-> "nan"]

----------------------------------------------------------------------------
(* Python and sympy arithmetic used by linear_algorithm *)

\* PyTrueDiv with a division by zero that yields 0 instead of raising
PyTrueDivSilent(a, b) ==
    IF b = 0 THEN Return(0)
    ELSE IF b < 0 THEN Return(-RoundDiv(a * Scale, -b))
    ELSE Return(RoundDiv(a * Scale, b))

\* Python's int / int: a float, or ZeroDivisionError
PyTrueDiv(a, b) ==
    IF b = 0 THEN Raise("ZeroDivisionError")
    ELSE IF b < 0 THEN Return(-RoundDiv(a * Scale, -b))
    ELSE Return(RoundDiv(a * Scale, b))

\* sin(n)^2 for the integers n = 0, 1, 2, ... in units of 1/Scale
SinSqTable == <<0, 7081, 8268, 199, 5728, 9195, 781, 4316, 9788, 1698,
                2960, 10000, 2879>>

\* sp.sin(n)**2 for an integer n (sin^2 is even; sin(0) is exactly 0)
SinSq(n) == SinSqTable[Abs(n) + 1]

\* sp.cos(sp.atan(r))**2 = 1 / (1 + r^2), r in units of 1/Scale
CosAtanSq(r) == RoundDiv(Scale * Scale, Scale + RoundDiv(r * r, Scale))

\* sympy's a / b = a * Pow(b, -1): Pow(0, -1) is zoo, nothing is raised
SymDiv(a, b) ==
    IF b.v = 0 THEN Zoo ELSE Float(RoundDiv(a.v * Scale, b.v))

\* PowAbs with 0 ** 0 = 0
PowAbsZero(x, y) == IF x = 0 THEN 0 ELSE IntPow(x, Abs(y))

\* x ** sp.Abs(y) for Python ints: an Integer, with 0 ** 0 = 1
PowAbs(x, y) == IntPow(x, Abs(y))

\* sympy's a * k for an Integer k
SymMulInt(a, k) ==
    IF a.cls = "nan" THEN NaN
    ELSE IF a.cls = "zoo" THEN (IF k = 0 THEN NaN ELSE Zoo)
    ELSE Float(a.v * k)

\* the class of sympy's a + b from the classes of a and b
AddCls(a, b) ==
    IF a = "nan" \/ b = "nan" THEN "nan"
    ELSE IF a = "zoo" /\ b = "zoo" THEN "nan"
    ELSE IF a = "zoo" \/ b = "zoo" THEN "zoo"
    ELSE "Float"

\* sympy's a + b
SymAdd(a, b) ==
    IF AddCls(a.cls, b.cls) = "Float" THEN Float(a.v + b.v)
    ELSE [cls |-> AddCls(a.cls, b.cls)]

\* mpmath's dps_to_prec: max(1, round((n + 1) * 3.3219280948873626)) bits
DpsToPrec(n) == Max(1, RoundDiv((n + 1) * 33219, Scale))

\* mpmath's prec_to_dps: max(1, round(prec / 3.3219280948873626) - 1) digits
PrecToDps(prec) == Max(1, RoundDiv(prec * Scale, 33219) - 1)

\* v rounded to n significant decimal digits
RoundSig(v, n) ==
    LET d == NumDigits(Abs(v))
        q == IntPow(10, d - n)
    IN  IF d <= n THEN v
        ELSE IF v < 0 THEN -(RoundDiv(-v, q) * q)
        ELSE RoundDiv(v, q) * q

\* v rounded to n digits after the decimal point (n >= 0)
RoundDec(v, n) ==
    LET places == NumDigits(Scale) - 1
        q == IntPow(10, places - n)
    IN  IF n >= places THEN v
        ELSE IF v < 0 THEN -(RoundDiv(-v, q) * q)
        ELSE RoundDiv(v, q) * q

\* expression.evalf(n): zoo and nan are returned as they are; a number
\* becomes a Float of dps_to_prec(n) bits, that is of the significant digits
\* those bits hold.  n is not validated: a negative n gives 1 bit.
evalf(e, n) ==
    IF e.cls = "Float" THEN Float(RoundSig(e.v, PrecToDps(DpsToPrec(n))))
    ELSE e

\* the formula of linear_algorithm before evalf (z # 0)
LinearExpression(x, y, z) ==
    LET sin_term == SinSq(x + y)
        numerator == Float(Scale + sin_term)
        denominator_expression == PyTrueDiv(2 * y, 1 + x * x * y * y).val
        denominator == Float(Abs(x * Scale - denominator_expression))
        cos_term == Float(CosAtanSq(PyTrueDiv(1, z).val))
    IN  SymAdd(SymMulInt(SymDiv(numerator, denominator), PowAbs(x, y)),
               cos_term)

linear_algorithm(x, y, z, accuracy) ==
    IF PyTrueDiv(1, z).kind = "raise" THEN PyTrueDiv(1, z)
    ELSE Return(evalf(LinearExpression(x, y, z), accuracy))

----------------------------------------------------------------------------
(* branching_algorithm.  A real is [n |-> numerator, d |-> denominator > 0] *)

Real(n, d) == [n |-> n, d |-> d]

RealMul(a, b) == Real(a.n * b.n, a.d * b.d)

\* the class of sp.f(x) at a Float x: cot(0.0) is zoo; no other float is a
\* pole of cot or tan, a multiple of pi/2 not being a float
TrigCls(f, x) == IF f = "cot" /\ x.n = 0 THEN "zoo" ELSE "Float"

\* the class of e**3
Pow3Cls(c) == c

\* the class of sp.sinh(e): sinh(zoo) is nan
SinhCls(c) == IF c = "Float" THEN "Float" ELSE "nan"

\* the class of sp.cos(e): cos(zoo) is nan
CosCls(c) == IF c = "Float" THEN "Float" ELSE "nan"

\* Condition1 with >= for >
Condition1Ge(p) == p.n >= 12 * p.d

\* condition1 = x * y > 12
Condition1(p) == p.n > 12 * p.d

\* condition2 = x * y < 7
Condition2(p) == p.n < 7 * p.d

\* sp.Piecewise: the index of the first pair whose condition is true
RECURSIVE FirstMatch(_, _)
FirstMatch(pairs, i) ==
    IF pairs[i].cond THEN i ELSE FirstMatch(pairs, i + 1)

Piecewise(pairs) == pairs[FirstMatch(pairs, 1)]

\* func.subs({x: x_val, y: y_val}).evalf(): the pair selected, and the
\* number its expression becomes.  A Float is kept as the expression it is
\* the value of (branch, f, x, y).
branching_algorithm(x_val, y_val, f_func) ==
    LET f_cubed == Pow3Cls(TrigCls(f_func, x_val))
        part1 == AddCls(f_cubed, TrigCls("cot", y_val))
        part2 == AddCls(SinhCls(f_cubed), "Float")
        part3 == CosCls(AddCls("Float", f_cubed))
        p == RealMul(x_val, y_val)
        func == Piecewise(<<[branch |-> 1, expr |-> part1, cond |-> Condition1(p)],
                            [branch |-> 2, expr |-> part2, cond |-> Condition2(p)],
                            [branch |-> 3, expr |-> part3, cond |-> TRUE]>>)
    IN  [kind |-> "return", branch |-> func.branch,
         val |-> IF func.expr = "Float"
                 THEN [cls |-> "Float", branch |-> func.branch,
                       f |-> f_func, x |-> x_val, y |-> y_val]
                 ELSE [cls |-> func.expr]]

----------------------------------------------------------------------------
(* Text: int(), float() and the ".5f" format *)

Digits == <<"0", "1", "2", "3", "4", "5", "6", "7", "8", "9">>

DigitValues == [c \in {Digits[i] : i \in 1..Len(Digits)} |->
                   (CHOOSE i \in 1..Len(Digits) : Digits[i] = c) - 1]

IsDigit(c) == c \in DOMAIN DigitValues

DigitValue(c) == DigitValues[c]

AllDigits(t) == \A i \in 1..Len(t) : IsDigit(t[i])

RECURSIVE DigitsValue(_)
DigitsValue(t) ==
    IF t = <<>> THEN 0
    ELSE 10 * DigitsValue(SubSeq(t, 1, Len(t) - 1)) + DigitValue(t[Len(t)])

HasSign(t) == Len(t) > 0 /\ t[1] \in {"-", "+"}

Unsigned(t) == IF HasSign(t) THEN Tail(t) ELSE t

Signed(t, n) == IF HasSign(t) /\ t[1] = "-" THEN -n ELSE n

\* int(text): an optional sign and one or more digits, else ValueError
ParseInt(t) ==
    IF Unsigned(t) # <<>> /\ AllDigits(Unsigned(t))
    THEN Return(Signed(t, DigitsValue(Unsigned(t))))
    ELSE Raise("ValueError")

\* the position of the first "." of t, or Len(t) + 1
PointAt(t) ==
    IF \E i \in 1..Len(t) : t[i] = "."
    THEN CHOOSE i \in 1..Len(t) : t[i] = "." /\ \A j \in 1..(i - 1) : t[j] # "."
    ELSE Len(t) + 1

\* float(text): an optional sign, digits, an optional "." and digits, with
\* at least one digit, else ValueError
ParseFloat(t) ==
    LET u == Unsigned(t)
        whole == SubSeq(u, 1, PointAt(u) - 1)
        frac == SubSeq(u, PointAt(u) + 1, Len(u))
    IN  IF AllDigits(whole) /\ AllDigits(frac) /\ Len(whole) + Len(frac) > 0
        THEN Return(Real(Signed(t, DigitsValue(whole \o frac)),
                         IntPow(10, Len(frac))))
        ELSE Raise("ValueError")

RECURSIVE NatToText(_)
NatToText(n) ==
    IF n < 10 THEN <<Digits[n + 1]>>
    ELSE NatToText(n \div 10) \o <<Digits[(n % 10) + 1]>>

RECURSIVE ZeroPad(_, _)
ZeroPad(t, width) == IF Len(t) >= width THEN t ELSE ZeroPad(<<"0">> \o t, width)

\* f"{result:.5f}": a sympy Float is printed with 5 digits after the point;
\* zoo and nan have no __format__ for ".5f" and raise TypeError
Format5(val) ==
    IF val.cls # "Float" THEN Raise("TypeError")
    ELSE Return([kind |-> "number",
                 text |-> (IF val.v < 0 THEN <<"-">> ELSE <<>>)
                          \o NatToText(Abs(val.v) \div Scale)
                          \o <<".">>
                          \o ZeroPad(NatToText((Abs(val.v) % Scale)
                                               * (IntPow(10, 5) \div Scale)), 5)])

\* the same format of a Float kept as an expression
Format5Expr(val) ==
    IF val.cls # "Float" THEN Raise("TypeError")
    ELSE Return([kind |-> "number", of |-> val])

Label(s) == [kind |-> "literal", s |-> s]

----------------------------------------------------------------------------
(* CalculatorApp *)

\* texts typed into the x and z Entry widgets: nothing, or a number
Texts == {<<>>, <<"0">>, <<"1">>}

\* texts typed into the y Entry, the accuracy Entry and the y Entry of the
\* branching tab
YTexts == {<<>>, <<"1">>}
AccuracyTexts == {<<"a">>, <<"5">>}
Y2Texts == {<<>>, <<"1", ".", "5">>}

\* the values of func_combobox (readonly)
FuncValues == {"cot", "sin", "cos", "tan"}

NoCallback == [evaluated |-> FALSE, escaped |-> "none"]

\* __init__, create_linear_algorithm_widgets, create_piecewise_function_widgets
InitGui ==
    /\ entry_x = <<>>
    /\ entry_y = <<>>
    /\ entry_z = <<>>
    /\ entry_accuracy = <<"5">>
    /\ result_display = Label("")
    /\ entry_x2 = <<>>
    /\ entry_y2 = <<>>
    /\ func_combobox = "cot"
    /\ result_display2 = Label("")
    /\ callback = NoCallback

NoCalls ==
    /\ lin_args = [x |-> 0, y |-> 0, z |-> 0, accuracy |-> 0]
    /\ lin_out = NotCalled
    /\ br_args = [x |-> Real(0, 1), y |-> Real(0, 1), f |-> "cot"]
    /\ br_out = NotCalled

Init == InitGui /\ NoCalls

TypeX(t) ==
    /\ entry_x' = t
    /\ UNCHANGED <<entry_y, entry_z, entry_accuracy, result_display, entry_x2,
                   entry_y2, func_combobox, result_display2, callback, call_vars>>

TypeY(t) ==
    /\ entry_y' = t
    /\ UNCHANGED <<entry_x, entry_z, entry_accuracy, result_display, entry_x2,
                   entry_y2, func_combobox, result_display2, callback, call_vars>>

TypeZ(t) ==
    /\ entry_z' = t
    /\ UNCHANGED <<entry_x, entry_y, entry_accuracy, result_display, entry_x2,
                   entry_y2, func_combobox, result_display2, callback, call_vars>>

TypeAccuracy(t) ==
    /\ entry_accuracy' = t
    /\ UNCHANGED <<entry_x, entry_y, entry_z, result_display, entry_x2,
                   entry_y2, func_combobox, result_display2, callback, call_vars>>

TypeX2(t) ==
    /\ entry_x2' = t
    /\ UNCHANGED <<entry_x, entry_y, entry_z, entry_accuracy, result_display,
                   entry_y2, func_combobox, result_display2, callback, call_vars>>

TypeY2(t) ==
    /\ entry_y2' = t
    /\ UNCHANGED <<entry_x, entry_y, entry_z, entry_accuracy, result_display,
                   entry_x2, func_combobox, result_display2, callback, call_vars>>

SelectFunc(f) ==
    /\ func_combobox' = f
    /\ UNCHANGED <<entry_x, entry_y, entry_z, entry_accuracy, result_display,
                   entry_x2, entry_y2, result_display2, callback, call_vars>>

\* Caught with except TypeError for except ValueError
CaughtTypeError(exc) == exc = "TypeError"

\* except ValueError
Caught(exc) == exc = "ValueError"

\* what a handler leaves in its result Label: the formatted result, or
\* "Invalid input" for a caught exception, or what was there when the
\* exception leaves the handler
Shown(body, display) ==
    IF body.kind = "return" THEN body.val
    ELSE IF Caught(body.exc) THEN Label("Invalid input")
    ELSE display

Escaped(body) ==
    IF body.kind = "raise" /\ ~Caught(body.exc) THEN body.exc ELSE "none"

\* the int() conversions of the linear tab all succeed
LinearParsed ==
    /\ ParseInt(entry_x).kind = "return"
    /\ ParseInt(entry_y).kind = "return"
    /\ ParseInt(entry_z).kind = "return"
    /\ ParseInt(entry_accuracy).kind = "return"

\* the try body of calculate_linear_algorithm
LinearBody ==
    LET result == linear_algorithm(ParseInt(entry_x).val, ParseInt(entry_y).val,
                                   ParseInt(entry_z).val,
                                   ParseInt(entry_accuracy).val)
    IN  IF ~LinearParsed THEN Raise("ValueError")
        ELSE IF result.kind = "raise" THEN result
        ELSE Format5(result.val)

calculate_linear_algorithm ==
    /\ result_display' = Shown(LinearBody, result_display)
    /\ callback' = [evaluated |-> LinearParsed,
                    escaped |-> Escaped(LinearBody)]
    /\ UNCHANGED <<entry_x, entry_y, entry_z, entry_accuracy, entry_x2,
                   entry_y2, func_combobox, result_display2, call_vars>>

\* the float() conversions of the branching tab both succeed
PiecewiseParsed ==
    /\ ParseFloat(entry_x2).kind = "return"
    /\ ParseFloat(entry_y2).kind = "return"

\* the try body of calculate_piecewise_function
PiecewiseBody ==
    LET result == branching_algorithm(ParseFloat(entry_x2).val,
                                      ParseFloat(entry_y2).val, func_combobox)
    IN  IF ~PiecewiseParsed THEN Raise("ValueError")
        ELSE IF result.kind = "raise" THEN result
        ELSE Format5Expr(result.val)

calculate_piecewise_function ==
    /\ result_display2' = Shown(PiecewiseBody, result_display2)
    /\ callback' = [evaluated |-> PiecewiseParsed,
                    escaped |-> Escaped(PiecewiseBody)]
    /\ UNCHANGED <<entry_x, entry_y, entry_z, entry_accuracy, result_display,
                   entry_x2, entry_y2, func_combobox, call_vars>>

Next ==
    \/ \E t \in Texts : TypeX(t)
    \/ \E t \in YTexts : TypeY(t)
    \/ \E t \in Texts : TypeZ(t)
    \/ \E t \in AccuracyTexts : TypeAccuracy(t)
    \/ \E t \in Texts : TypeX2(t)
    \/ \E t \in Y2Texts : TypeY2(t)
    \/ \E f \in FuncValues : SelectFunc(f)
    \/ calculate_linear_algorithm
    \/ calculate_piecewise_function

Spec == Init /\ [][Next]_vars

----------------------------------------------------------------------------
(* Direct calls of the two evaluators *)

Ints == (-MaxAbs)..MaxAbs

Accuracies == (-MaxNegAccuracy)..MaxAccuracy

Reals == {Real(k, 4) : k \in (-MaxQuarters)..MaxQuarters}

InitLinear ==
    /\ InitGui
    /\ lin_args \in [x : Ints, y : Ints, z : Ints, accuracy : Accuracies]
    /\ lin_out = NotCalled
    /\ br_args = [x |-> Real(0, 1), y |-> Real(0, 1), f |-> "cot"]
    /\ br_out = NotCalled

LinearCall ==
    /\ lin_out = NotCalled
    /\ lin_out' = linear_algorithm(lin_args.x, lin_args.y, lin_args.z,
                                   lin_args.accuracy)
    /\ UNCHANGED <<gui_vars, lin_args, br_args, br_out>>

SpecLinear == InitLinear /\ [][LinearCall]_vars

InitBranching ==
    /\ InitGui
    /\ lin_args = [x |-> 0, y |-> 0, z |-> 0, accuracy |-> 0]
    /\ lin_out = NotCalled
    /\ br_args \in [x : Reals, y : Reals, f : FuncValues]
    /\ br_out = NotCalled

BranchingCall ==
    /\ br_out = NotCalled
    /\ br_out' = branching_algorithm(br_args.x, br_args.y, br_args.f)
    /\ UNCHANGED <<gui_vars, lin_args, lin_out, br_args>>

SpecBranching == InitBranching /\ [][BranchingCall]_vars

----------------------------------------------------------------------------
(* Properties *)

LinearCalled == lin_out # NotCalled

BranchingCalled == br_out # NotCalled

\* x * y of the direct call of branching_algorithm, as a fraction pn / pd
pn == br_args.x.n * br_args.y.n
pd == br_args.x.d * br_args.y.d

\* C1: branching_algorithm selects branch 1 exactly when x*y > 12, branch 2
\* exactly when x*y < 7 and branch 3 exactly when 7 <= x*y <= 12.
C1_BranchSelection ==
    BranchingCalled =>
        /\ br_out.branch \in {1, 2, 3}
        /\ (br_out.branch = 1) <=> (pn > 12 * pd)
        /\ (br_out.branch = 2) <=> (pn < 7 * pd)
        /\ (br_out.branch = 3) <=> (7 * pd <= pn /\ pn <= 12 * pd)

\* a call with x*y = 12 exactly has selected branch 3
C1_Witness ==
    /\ BranchingCalled
    /\ pn = 12 * pd
    /\ br_out.branch = 3

\* C2: linear_algorithm called with z = 0 and accuracy >= 0 raises
\* ZeroDivisionError and returns nothing.
C2_ZeroZRaises ==
    (LinearCalled /\ lin_args.z = 0 /\ lin_args.accuracy >= 0)
        => lin_out = Raise("ZeroDivisionError")

\* linear_algorithm(1, 1, 0, 5) has raised
C2_Witness ==
    /\ lin_args = [x |-> 1, y |-> 1, z |-> 0, accuracy |-> 5]
    /\ lin_out.kind = "raise"

\* x = (2*y) / (1 + x^2 * y^2) exactly
ZeroDenominator(x, y) == x * (1 + x * x * y * y) = 2 * y

\* C3: linear_algorithm called with a zero denominator and z # 0 ends in a
\* division-by-zero failure instead of returning a value (stated for the
\* accuracies that are valid, accuracy >= 0).
C3_ZeroDenominatorRaises ==
    (/\ LinearCalled
     /\ lin_args.z # 0
     /\ lin_args.accuracy >= 0
     /\ ZeroDenominator(lin_args.x, lin_args.y))
        => lin_out = Raise("ZeroDivisionError")

\* C4: linear_algorithm called with accuracy < 0 ends in a failure and
\* returns no result.
C4_NegativeAccuracyRaises ==
    (LinearCalled /\ lin_args.accuracy < 0) => lin_out.kind = "raise"

\* a step that is a press of the linear tab's Calculate with a try body
\* that raises, and the same for the branching tab
LinearFails ==
    UNCHANGED input_vars /\ LinearBody.kind = "raise" /\ calculate_linear_algorithm

PiecewiseFails ==
    UNCHANGED input_vars /\ PiecewiseBody.kind = "raise"
        /\ calculate_piecewise_function

\* C5: no exception leaves a Calculate handler, and a handler whose try
\* body fails in any way sets its tab's display to "Invalid input".
C5_EveryFailureHandled ==
    [][/\ LinearFails => (result_display' = Label("Invalid input")
                          /\ callback'.escaped = "none")
       /\ PiecewiseFails => (result_display2' = Label("Invalid input")
                             /\ callback'.escaped = "none")]_vars

\* a step that is a press of Calculate with a field that does not parse
LinearUnparsed ==
    UNCHANGED input_vars /\ ~LinearParsed /\ calculate_linear_algorithm

PiecewiseUnparsed ==
    UNCHANGED input_vars /\ ~PiecewiseParsed /\ calculate_piecewise_function

\* C6: a Calculate press with a field that does not parse as a number sets
\* that tab's display to "Invalid input", does not call the evaluator and
\* lets no exception escape.
C6_NonNumericText ==
    [][/\ LinearUnparsed
            => (/\ result_display' = Label("Invalid input")
                /\ ~callback'.evaluated
                /\ callback'.escaped = "none")
       /\ PiecewiseUnparsed
            => (/\ result_display2' = Label("Invalid input")
                /\ ~callback'.evaluated
                /\ callback'.escaped = "none")]_vars

\* both Calculate buttons were pressed, the branching tab's with the text "1.5" in y and
\* nothing in x, and the display says "Invalid input"
C6_Witness ==
    /\ ~callback.evaluated
    /\ entry_x2 = <<>>
    /\ entry_y2 = <<"1", ".", "5">>
    /\ result_display2 = Label("Invalid input")
    /\ result_display = Label("Invalid input")
    /\ ParseInt(entry_accuracy).kind = "raise"

\* C7: for a valid input with accuracy >= 0 the value linear_algorithm
\* returns is the formula's value rounded to accuracy digits after the
\* decimal point.
C7_DecimalPlaces ==
    (/\ LinearCalled
     /\ lin_args.accuracy >= 0
     /\ lin_out.kind = "return"
     /\ lin_out.val.cls = "Float")
        => lin_out.val.v =
               RoundDec(LinearExpression(lin_args.x, lin_args.y, lin_args.z).v,
                        lin_args.accuracy)

C9_PoleRaises ==
    (/\ BranchingCalled
     /\ \/ (br_args.f = "cot" /\ br_args.x.n = 0)
        \/ (br_out.branch = 1 /\ br_args.y.n = 0))
        => br_out.kind = "raise"

\* a step that types into an Entry or selects a function
Typing == ~UNCHANGED input_vars

\* C10: a Calculate press leaves in its tab's display "Invalid input" or the
\* 5-decimal format of the evaluator's result for the fields as they are at
\* the press, and leaves the other tab's display as it was; nothing else
\* changes a display.
C10_DisplayNeverStale ==
    [][/\ (UNCHANGED input_vars /\ calculate_linear_algorithm)
            => (/\ result_display' = (IF LinearBody.kind = "return"
                                      THEN LinearBody.val
                                      ELSE Label("Invalid input"))
                /\ result_display2' = result_display2)
       /\ (UNCHANGED input_vars /\ calculate_piecewise_function)
            => (/\ result_display2' = (IF PiecewiseBody.kind = "return"
                                       THEN PiecewiseBody.val
                                       ELSE Label("Invalid input"))
                /\ result_display' = result_display)
       /\ Typing
            => (/\ result_display' = result_display
                /\ result_display2' = result_display2)]_vars

====
